---- MODULE Spec2Model ----
(***************************************************************************)
(* A model of Hayashi (src/hayashi.py): the LRU pixel cache, the two text  *)
(* extraction strategies of DocModel, the page renderer and the tick       *)
(* driven "render all" scheduler of PdfView.                               *)
(*                                                                         *)
(* The specifications share the variables:                                 *)
(*   SpecCache    LRUCache alone, driven by arbitrary get/put calls;       *)
(*   SpecExtract  DocModel._build_simple / _build_structured applied to    *)
(*                documents drawn from a bounded set;                      *)
(*   Spec         MainWindow + PdfView + DocModel: every handler of the    *)
(*                window, the page buttons and the render-all timer, over  *)
(*                short files that may fail to open; SpecLive adds a timer *)
(*                that fires;                                              *)
(*   SpecLong     the same handlers over the files that are longer;        *)
(*   SpecRender   render_single_page_raw called with any page index;      *)
(*   SpecVisible  render_visible_lite called with any count.               *)
(* A specification keeps the variables it does not use at their idle       *)
(* values.                                                                 *)
(***************************************************************************)
EXTENDS Integers, Sequences, FiniteSets, TLC

VARIABLES
    \* ---- LRUCache under test (SpecCache) ----
    max,            \* LRUCache.max
    d,              \* LRUCache.d : OrderedDict, oldest first, as a sequence of [k, v]
    used,           \* history: keys ever stored, ordered by last use (put or get hit)
    putlog,         \* history: the keys put so far while only distinct puts happened
    guard,          \* history: the last get hit and the new-key puts that followed it
    lastop,         \* history: the last call and what it returned
    \* ---- one DocModel and the document it extracts (SpecExtract) ----
    pdf,            \* what the decoder reports for the file: a sequence of pages
    xmodel,         \* the DocModel: doc, page_count, mode, strip_headers,
                    \* merged_text, figures, page_offsets
    xparts,         \* history: the untrimmed "".join(parts) and what each page appended
    \* ---- the application (Spec) ----
    heap,           \* the DocModel objects, by identity 1..HeapSize
    win_model,      \* MainWindow.model: an identity, 0 for None
    view_model,     \* PdfView.model: an identity, 0 for None
    safe_png,       \* PdfView.safe_png (and the state of the check box act_safe)
    act_struct,     \* MainWindow.act_struct.isChecked()
    dpi,            \* PdfView.dpi
    page_items,     \* PdfView.page_items: original_img of each PageItem
    timer,          \* PdfView._all_timer.isActive()
    all_idx,        \* PdfView._all_idx
    all_active,     \* PdfView._all_active
    last,           \* history: the last handler, if it was a render_single_page_raw call
    vis,            \* history: the last handler, if it was a render_visible_lite call
    run             \* history: ticks since render_all_pages started the timer,
                    \* -1 once another model has been presented

cacheVars == <<max, d, used, putlog, guard, lastop>>

extractVars == <<pdf, xmodel, xparts>>

mainVars == <<heap, win_model, view_model, safe_png, act_struct, dpi, page_items,
              timer, all_idx, all_active, last, vis, run>>

vars == <<cacheVars, extractVars, mainVars>>

\* what each specification leaves alone
notCache == <<extractVars, mainVars>>
notExtract == <<cacheVars, mainVars>>
notMain == <<cacheVars, extractVars>>

----------------------------------------------------------------------------
(* Bounds of the model.                                                    *)

MaxCap == 3         \* capacities 1..MaxCap are tried in SpecCache
MaxKey == 4         \* keys 1..MaxKey
MaxVal == 2         \* values 1..MaxVal
MaxPages == 2       \* documents of 0..MaxPages pages in SpecExtract
MaxPath == 3        \* files 1..MaxPath exist
HeapSize == 3       \* DocModel objects alive at once (two referenced, one new)
MaxShort == 1       \* Spec opens the files of at most MaxShort pages
MaxCount == 2       \* render_visible_lite is called with count in 0..MaxCount

Paths == 1..MaxPath
DpiChoices == {110, 220}

CacheKeys == 1..MaxKey
CacheVals == 1..MaxVal

----------------------------------------------------------------------------
(* Sequence helpers.                                                       *)

Range(s) == {s[i] : i \in DOMAIN s}

Last(s) == s[Len(s)]

\* position of x in s (0 when absent)
IndexOf(s, x) == IF \E i \in DOMAIN s : s[i] = x
                 THEN CHOOSE i \in DOMAIN s : s[i] = x
                 ELSE 0

Without(s, x) == SelectSeq(s, LAMBDA e : e # x)

----------------------------------------------------------------------------
(* LRUCache (src/hayashi.py:20-28).  An OrderedDict is a sequence of       *)
(* entries [k, v] in insertion order; popitem(last=False) removes the head.*)

Keys(dd) == {dd[i].k : i \in DOMAIN dd}

\* OrderedDict.pop(k)
DictPop(dd, k) == SelectSeq(dd, LAMBDA e : e.k # k)

\* OrderedDict[k] for a key that is present
DictAt(dd, k) == (CHOOSE i \in DOMAIN dd : dd[i].k = k)

\* while len(self.d) > self.max: self.d.popitem(last=False)
RECURSIVE Evict(_, _)
Evict(dd, mx) == IF Len(dd) > mx THEN Evict(Tail(dd), mx) ELSE dd

\* LRUCache.get: the dictionary afterwards and the value returned;
\* ret = <<>> is None, ret = <<v>> is the value v.
LRUCache_get_stale(dd, k) ==
    IF k \in Keys(dd) THEN [d |-> dd, ret |-> <<dd[DictAt(dd, k)].v>>]
    ELSE [d |-> dd, ret |-> <<>>]

LRUCache_get(dd, k) ==
    IF k \in Keys(dd)
    THEN LET v == dd[DictAt(dd, k)].v
         IN  [d |-> Append(DictPop(dd, k), [k |-> k, v |-> v]), ret |-> <<v>>]
    ELSE [d |-> dd, ret |-> <<>>]

\* LRUCache.put: the dictionary afterwards
LRUCache_put_noevict(dd, mx, k, v) ==
    Append(IF k \in Keys(dd) THEN DictPop(dd, k) ELSE dd, [k |-> k, v |-> v])

LRUCache_put_mru(dd, mx, k, v) ==
    LET ins == Append(IF k \in Keys(dd) THEN DictPop(dd, k) ELSE dd, [k |-> k, v |-> v])
    IN  IF Len(ins) > mx THEN SubSeq(ins, 1, mx) ELSE ins

LRUCache_put(dd, mx, k, v) ==
    LET popped == IF k \in Keys(dd) THEN DictPop(dd, k) ELSE dd
        ins    == Append(popped, [k |-> k, v |-> v])
    IN  Evict(ins, mx)

----------------------------------------------------------------------------
(* SpecCache: one LRUCache(max_items = N), N in 1..MaxCap, and any         *)
(* sequence of get and put calls on it.                                    *)

NoGuard == [key |-> 0, n |-> 0, waslru |-> FALSE]

InitCache ==
    /\ max \in 1..MaxCap
    /\ d = <<>>
    /\ used = <<>>
    /\ putlog = [pure |-> TRUE, keys |-> <<>>]
    /\ guard = NoGuard
    /\ lastop = [op |-> "init", k |-> 0, hit |-> FALSE, ret |-> <<>>]

CacheGet(k) ==
    LET r == LRUCache_get(d, k)
        hit == k \in Keys(d)
    IN  /\ d' = r.d
        /\ used' = IF hit THEN Append(Without(used, k), k) ELSE used
        /\ putlog' = [pure |-> FALSE, keys |-> <<>>]
        /\ guard' = IF hit THEN [key |-> k, n |-> 0, waslru |-> d[1].k = k]
                    ELSE NoGuard
        /\ lastop' = [op |-> "get", k |-> k, hit |-> hit, ret |-> r.ret]
        /\ UNCHANGED max
        /\ UNCHANGED notCache

CachePut(k, v) ==
    LET new == k \notin Keys(d)
    IN  /\ d' = LRUCache_put(d, max, k, v)
        /\ used' = Append(Without(used, k), k)
        /\ putlog' = IF putlog.pure /\ k \notin Range(putlog.keys)
                     THEN [pure |-> TRUE, keys |-> Append(putlog.keys, k)]
                     ELSE [pure |-> FALSE, keys |-> <<>>]
        /\ guard' = IF guard.key # 0 /\ new /\ guard.n < max - 1
                    THEN [guard EXCEPT !.n = @ + 1]
                    ELSE NoGuard
        /\ lastop' = [op |-> "put", k |-> k, hit |-> ~new, ret |-> <<>>]
        /\ UNCHANGED max
        /\ UNCHANGED notCache

NextCache ==
    \/ \E k \in CacheKeys : CacheGet(k)
    \/ \E k \in CacheKeys, v \in CacheVals : CachePut(k, v)

----------------------------------------------------------------------------
(* Text.  A Python str is a sequence of one-character strings.             *)

\* the ASCII characters for which str.isspace() holds, which str.strip()
\* and str.rstrip() remove: U+0009..U+000D, U+001C..U+001F and the space.
\* The text of the model is ASCII: the whitespace beyond it (U+0085,
\* U+00A0, U+1680, U+2000..U+200A, U+2028, U+2029, U+202F, U+205F, U+3000)
\* is not in the set, and no character beyond ASCII is in a page.
Whitespace == {
    "\t", "\n", "", "\f", "\r", "", "",
    "", "", " "
}

RECURSIVE LStrip(_)
LStrip(s) == IF s # <<>> /\ Head(s) \in Whitespace THEN LStrip(Tail(s)) ELSE s

\* str.rstrip()
RECURSIVE RStrip(_)
RStrip(s) == IF s # <<>> /\ s[Len(s)] \in Whitespace
             THEN RStrip(SubSeq(s, 1, Len(s) - 1))
             ELSE s

\* str.strip()
Strip(s) == RStrip(LStrip(s))

\* s[a:b] for 0 <= a, 0 <= b (Python clamps a slice to the string)
Slice(s, a, b) == SubSeq(s, a + 1, IF b < Len(s) THEN b ELSE Len(s))

\* "".join(seqs)
RECURSIVE Concat(_)
Concat(ss) == IF ss = <<>> THEN <<>> ELSE Head(ss) \o Concat(Tail(ss))

\* " ".join(seqs)
RECURSIVE JoinSpace(_)
JoinSpace(ss) == IF ss = <<>> THEN <<>>
                 ELSE IF Len(ss) = 1 THEN Head(ss)
                 ELSE Head(ss) \o <<" ">> \o JoinSpace(Tail(ss))

DigitChar == <<"0", "1", "2", "3", "4", "5", "6", "7", "8", "9">>

\* str(n) for n >= 0
RECURSIVE Str(_)
Str(n) == IF n < 10 THEN <<DigitChar[n + 1]>>
          ELSE Str(n \div 10) \o <<DigitChar[(n % 10) + 1]>>

\* "[FIGURE "
MarkHead == <<"[", "F", "I", "G", "U", "R", "E", " ">>

Marker_zero_based(fig_id, pno) ==
    MarkHead \o Str(fig_id) \o <<" ", "(", "p">> \o Str(pno) \o <<")", "]">>

\* f"[FIGURE {fig_id} (p{pno+1})]"
Marker(fig_id, pno) ==
    MarkHead \o Str(fig_id) \o <<" ", "(", "p">> \o Str(pno + 1) \o <<")", "]">>

NL == <<"\n">>
NLNL == <<"\n", "\n">>

----------------------------------------------------------------------------
(* What the decoder reports for a page:                                    *)
(*   text      page.get_text("text")                                       *)
(*   imgs      page.get_images(full=False), as the xrefs info[0]           *)
(*   imgs_err  page.get_images raises                                      *)
(*   height    page.rect.height                                            *)
(*   blocks    page.get_text("rawdict")["blocks"]: a text block (type 0)   *)
(*             has bbox and lines (each a sequence of span texts), an      *)
(*             image block (type 1) has bbox, xref and image, 0 standing   *)
(*             for a key that is missing or falsy.                         *)

HeaderCut == 60

PageH == 800

TextBlock(y0, y1, lines) ==
    [type |-> 0, bbox |-> <<0, y0, 500, y1>>, lines |-> lines, xref |-> 0, image |-> 0]

ImageBlock(y0, y1, xref, image) ==
    [type |-> 1, bbox |-> <<0, y0, 500, y1>>, lines |-> <<>>, xref |-> xref, image |-> image]

Page(text, imgs, err, blocks) ==
    [text |-> text, imgs |-> imgs, imgs_err |-> err, height |-> PageH, blocks |-> blocks]

BodyA   == TextBlock(100, 120, << <<<<"a">>>> >>)
BodyAB  == TextBlock(100, 140, << <<<<" ", "a">>, <<" ", "b">>>>, <<<<" ">>>> >>)
Header  == TextBlock(10, 60, << <<<<"h">>>> >>)
Footer  == TextBlock(740, 790, << <<<<"f">>>> >>)
Straddle == TextBlock(50, 70, << <<<<"s">>>> >>)
Blank   == TextBlock(100, 120, << <<<<" ">>>> >>)
ImgX    == ImageBlock(200, 300, 7, 0)
ImgI    == ImageBlock(200, 300, 0, 9)
ImgTop  == ImageBlock(0, 50, 8, 9)
ImgNone == ImageBlock(200, 300, 0, 0)

PageChoices == {
    Page(<<>>, <<>>, FALSE, <<>>),
    Page(<<"a", "\n">>, <<>>, FALSE, <<BodyA>>),
    Page(<<"a", "\n">>, <<7>>, FALSE, <<BodyA, ImgX>>),
    Page(<<>>, <<7, 8>>, FALSE, <<ImgX, ImgTop>>),
    Page(<<>>, <<>>, TRUE, <<ImgI, ImgNone>>),
    Page(<<" ", "a", " ", "b", "\n", " ", "\n">>, <<>>, FALSE, <<BodyAB>>),
    Page(<<" ", "\n">>, <<>>, FALSE, <<Blank>>),
    Page(<<"h", "\n", "a", "\n", "f", "\n">>, <<>>, FALSE, <<Header, BodyA, Footer>>),
    Page(<<"h", "\n", "f", "\n">>, <<9>>, FALSE, <<Header, ImgTop, Footer>>),
    Page(<<"s", "\n">>, <<>>, FALSE, <<Straddle>>)
}

RECURSIVE SeqsUpTo(_, _)
SeqsUpTo(S, n) ==
    IF n = 0 THEN {<<>>}
    ELSE LET shorter == SeqsUpTo(S, n - 1)
         IN  shorter \cup {Append(s, x) : s \in {t \in shorter : Len(t) = n - 1}, x \in S}

Documents == SeqsUpTo(PageChoices, MaxPages)

----------------------------------------------------------------------------
(* DocModel._build_simple and DocModel._build_structured                   *)
(* (src/hayashi.py:44-92).  The state of a build is the locals of the      *)
(* loop: parts (joined), char_count, fig_id, and the two containers of the *)
(* model; contrib keeps, per page, what the page appended to parts.        *)

BuildStart ==
    [parts |-> <<>>, char_count |-> 0, fig_id |-> 0,
     figures |-> <<>>, page_offsets |-> <<>>, contrib |-> <<>>]

\* self.figures[fig_id] = {...}; the dict is a sequence of entries
\* [id, page, xref, bbox], one per key, in the order of first insertion
FigPut(figs, id, page, xref, bbox) ==
    LET e == [id |-> id, page |-> page, xref |-> xref, bbox |-> bbox]
    IN  IF \E i \in DOMAIN figs : figs[i].id = id
        THEN [i \in DOMAIN figs |-> IF figs[i].id = id THEN e ELSE figs[i]]
        ELSE Append(figs, e)

NoBBox == <<>>

\* for info in imgs: xref=info[0]; fig_id+=1; marks.append(...); self.figures[fig_id]=...
RECURSIVE SimpleMarks(_, _, _)
SimpleMarks(acc, imgs, pno) ==
    IF imgs = <<>> THEN acc
    ELSE LET id == acc.fig_id + 1
         IN  SimpleMarks([fig_id  |-> id,
                          marks   |-> Append(acc.marks, Marker(id, pno)),
                          figures |-> FigPut(acc.figures, id, pno, Head(imgs), NoBBox)],
                         Tail(imgs), pno)

\* one iteration of the loop of _build_simple (lines 48-61)
SimplePage_restart(st, pno, page) ==
    LET start == 0
        txt   == Strip(page.text)
        t_add == IF txt # <<>> THEN txt \o NLNL ELSE <<>>
        cc1   == IF txt # <<>> THEN Len(txt) + 2 ELSE 0
        imgs  == IF page.imgs_err THEN <<>> ELSE page.imgs
        mk    == SimpleMarks([fig_id |-> st.fig_id, marks |-> <<>>, figures |-> st.figures],
                             imgs, pno)
        m     == JoinSpace(mk.marks)
        m_add == IF imgs # <<>> THEN m \o NLNL ELSE <<>>
        cc2   == IF imgs # <<>> THEN cc1 + Len(m) + 2 ELSE cc1
    IN  [parts        |-> st.parts \o t_add \o m_add,
         char_count   |-> cc2,
         fig_id       |-> mk.fig_id,
         figures      |-> mk.figures,
         page_offsets |-> Append(st.page_offsets, <<start, cc2>>),
         contrib      |-> Append(st.contrib, t_add \o m_add)]

SimplePage(st, pno, page) ==
    LET start == st.char_count
        txt   == Strip(page.text)
        t_add == IF txt # <<>> THEN txt \o NLNL ELSE <<>>
        cc1   == IF txt # <<>> THEN st.char_count + Len(txt) + 2 ELSE st.char_count
        imgs  == IF page.imgs_err THEN <<>> ELSE page.imgs
        mk    == SimpleMarks([fig_id |-> st.fig_id, marks |-> <<>>, figures |-> st.figures],
                             imgs, pno)
        m     == JoinSpace(mk.marks)
        m_add == IF imgs # <<>> THEN m \o NLNL ELSE <<>>
        cc2   == IF imgs # <<>> THEN cc1 + Len(m) + 2 ELSE cc1
    IN  [parts        |-> st.parts \o t_add \o m_add,
         char_count   |-> cc2,
         fig_id       |-> mk.fig_id,
         figures      |-> mk.figures,
         page_offsets |-> Append(st.page_offsets, <<start, cc2>>),
         contrib      |-> Append(st.contrib, t_add \o m_add)]

\* for line in blk["lines"]: s = "".join(span texts); if s.strip(): append s, "\n"
RECURSIVE StructLines(_, _)
StructLines(acc, lines) ==
    IF lines = <<>> THEN acc
    ELSE LET s == Concat(Head(lines))
         IN  StructLines(
                 IF Strip(s) # <<>>
                 THEN [acc EXCEPT !.parts = @ \o s \o NL,
                                  !.char_count = @ + Len(s) + 1,
                                  !.wrote = TRUE]
                 ELSE acc,
                 Tail(lines))

\* one iteration of "for blk in raw.get('blocks', [])" (lines 72-87)
StructBlock(acc, blk, pno, strip, page_h) ==
    LET top_cut == HeaderCut
        bot_cut == page_h - HeaderCut
        y0 == blk.bbox[2]
        y1 == blk.bbox[4]
    IN  IF strip /\ blk.type = 0 /\ (y1 <= top_cut \/ y0 >= bot_cut)
        THEN acc
        ELSE IF blk.type = 0
        THEN LET a == StructLines(acc, blk.lines)
             IN  [a EXCEPT !.parts = @ \o NL, !.char_count = @ + 1]
        ELSE IF blk.type = 1
        THEN LET xref == IF blk.xref # 0 THEN blk.xref ELSE blk.image
             IN  IF xref # 0
                 THEN LET id   == acc.fig_id + 1
                          mark == Marker(id, pno)
                      IN  [acc EXCEPT !.fig_id = id,
                                      !.parts = @ \o mark \o NLNL,
                                      !.char_count = @ + Len(mark) + 2,
                                      !.figures = FigPut(@, id, pno, xref, blk.bbox)]
                 ELSE acc
        ELSE acc

RECURSIVE StructBlocks(_, _, _, _, _)
StructBlocks(acc, blocks, pno, strip, page_h) ==
    IF blocks = <<>> THEN acc
    ELSE StructBlocks(StructBlock(acc, Head(blocks), pno, strip, page_h),
                      Tail(blocks), pno, strip, page_h)

\* one iteration of the loop of _build_structured (lines 67-91)
StructPage(st, pno, page, strip) ==
    LET start == st.char_count
        a  == StructBlocks([parts |-> <<>>, char_count |-> st.char_count,
                            fig_id |-> st.fig_id, figures |-> st.figures,
                            wrote |-> FALSE],
                           page.blocks, pno, strip, page.height)
        txt   == Strip(page.text)
        fall  == ~a.wrote /\ txt # <<>>
        f_add == IF fall THEN txt \o NLNL ELSE <<>>
        cc    == IF fall THEN a.char_count + Len(txt) + 2 ELSE a.char_count
    IN  [parts        |-> st.parts \o a.parts \o f_add,
         char_count   |-> cc,
         fig_id       |-> a.fig_id,
         figures      |-> a.figures,
         page_offsets |-> Append(st.page_offsets, <<start, cc>>),
         contrib      |-> Append(st.contrib, a.parts \o f_add)]

\* for pno in range(self.page_count): ...   (pno is 0-based, pages[pno + 1])
RECURSIVE SimpleLoop(_, _, _)
SimpleLoop(st, pages, pno) ==
    IF pno >= Len(pages) THEN st
    ELSE SimpleLoop(SimplePage(st, pno, pages[pno + 1]), pages, pno + 1)

RECURSIVE StructLoop(_, _, _, _)
StructLoop(st, pages, pno, strip) ==
    IF pno >= Len(pages) THEN st
    ELSE StructLoop(StructPage(st, pno, pages[pno + 1], strip), pages, pno + 1, strip)

\* the build's result: the model's three outputs, and the history of parts
Built(st) ==
    [merged_text  |-> RStrip(st.parts),
     figures      |-> st.figures,
     page_offsets |-> st.page_offsets,
     parts        |-> st.parts,
     contrib      |-> st.contrib]

build_simple(pages) == Built(SimpleLoop(BuildStart, pages, 0))

build_structured(pages, strip) == Built(StructLoop(BuildStart, pages, 0, strip))

----------------------------------------------------------------------------
(* SpecExtract: a DocModel is constructed for a document, then opened.     *)

NoParts == [parts |-> <<>>, contrib |-> <<>>]

\* DocModel.__init__ (lines 32-37), without the cache
NewDocModel(mode, strip) ==
    [doc |-> FALSE, page_count |-> 0, mode |-> mode, strip_headers |-> strip,
     merged_text |-> <<>>, figures |-> <<>>, page_offsets |-> <<>>]

InitExtract ==
    /\ pdf \in Documents
    /\ \E mode \in {"simple", "structured"}, strip \in BOOLEAN :
           xmodel = NewDocModel(mode, strip)
    /\ xparts = NoParts

\* DocModel.open (lines 38-41) in simple mode
OpenSimple ==
    /\ ~xmodel.doc /\ xmodel.mode = "simple"
    /\ LET b == build_simple(pdf)
       IN  /\ xmodel' = [xmodel EXCEPT !.doc = TRUE, !.page_count = Len(pdf),
                                       !.merged_text = b.merged_text,
                                       !.figures = b.figures,
                                       !.page_offsets = b.page_offsets]
           /\ xparts' = [parts |-> b.parts, contrib |-> b.contrib]
    /\ UNCHANGED pdf
    /\ UNCHANGED notExtract

\* DocModel.open (lines 38-41) in structured mode
OpenStructured ==
    /\ ~xmodel.doc /\ xmodel.mode # "simple"
    /\ LET b == build_structured(pdf, xmodel.strip_headers)
       IN  /\ xmodel' = [xmodel EXCEPT !.doc = TRUE, !.page_count = Len(pdf),
                                       !.merged_text = b.merged_text,
                                       !.figures = b.figures,
                                       !.page_offsets = b.page_offsets]
           /\ xparts' = [parts |-> b.parts, contrib |-> b.contrib]
    /\ UNCHANGED pdf
    /\ UNCHANGED notExtract

NextExtract ==
    \/ OpenSimple
    \/ OpenStructured

----------------------------------------------------------------------------
(* Images.  A QImage is a record: kind "page" is a rendered page, "tile"   *)
(* the 320x200 "Render failed" placeholder, "none" is Python's None.  gen  *)
(* is the identity of the DocModel that produced the image.                *)

NoImg == [kind |-> "none", gen |-> 0, pno |-> 0, dpi |-> 0, safe |-> FALSE,
          shrunk |-> FALSE, fmt |-> "none"]

\* the placeholder of render_page (lines 118-120)
Tile(gen, pno) ==
    [kind |-> "tile", gen |-> gen, pno |-> pno, dpi |-> 0, safe |-> FALSE,
     shrunk |-> FALSE, fmt |-> "RGB888"]

PageImg(gen, pno, res, safe, shrunk, fmt) ==
    [kind |-> "page", gen |-> gen, pno |-> pno, dpi |-> res, safe |-> safe,
     shrunk |-> shrunk, fmt |-> fmt]

----------------------------------------------------------------------------
(* The files that can be opened.  File p has (3 - p) % 3 pages; page pno   *)
(* of a file has the content PageList[...] and the raster properties       *)
(* PagePix: width and height in points and the channel count pix.n.        *)

PageList == <<
    Page(<<"a", "\n">>, <<>>, FALSE, <<BodyA>>),
    Page(<<>>, <<7>>, FALSE, <<ImgX>>)
>>

FilePages(p) == (3 - (p % 3)) % 3

FileDoc(p) == [i \in 1..FilePages(p) |-> PageList[((p + i) % Len(PageList)) + 1]]

PagePix(p, pno) ==
    IF pno % 3 = 0 THEN [w |-> 612, h |-> 792, n |-> 3]
    ELSE IF pno % 3 = 1 THEN [w |-> 2600, h |-> 2600, n |-> 4]
    ELSE [w |-> 612, h |-> 792, n |-> 2]

----------------------------------------------------------------------------
(* DocModel (src/hayashi.py:30-120).                                       *)

MaxItems == 20

FreeModel ==
    [id |-> 0, pdf_path |-> 0, doc |-> FALSE, page_count |-> 0, dpi |-> 0,
     mode |-> "none", strip_headers |-> FALSE, merged_text |-> <<>>,
     figures |-> <<>>, page_offsets |-> <<>>, page_pix_cache |-> <<>>]

Clamp(x, lo, hi) == IF x < lo THEN lo ELSE IF x > hi THEN hi ELSE x

\* DocModel.__init__ (lines 32-37); id is the identity of the new object
DocModel_init(id, pdf_path, dpi_arg, mode) ==
    [id |-> id, pdf_path |-> pdf_path, doc |-> FALSE, page_count |-> 0,
     dpi |-> Clamp(dpi_arg, 72, 220), mode |-> mode, strip_headers |-> FALSE,
     merged_text |-> <<>>, figures |-> <<>>, page_offsets |-> <<>>,
     page_pix_cache |-> <<>>]

\* what open() builds for each file and mode (strip_headers is never set
\* by the window), computed once
Extracted ==
    [p \in Paths |->
        [mode \in {"simple", "structured"} |->
            IF mode = "simple" THEN build_simple(FileDoc(p))
            ELSE build_structured(FileDoc(p), FALSE)]]

\* DocModel.open (lines 38-41) when fitz.open succeeds
DocModel_open(m) ==
    LET b == Extracted[m.pdf_path][m.mode]
    IN  [m EXCEPT !.doc = TRUE, !.page_count = FilePages(m.pdf_path),
                  !.merged_text = b.merged_text, !.figures = b.figures,
                  !.page_offsets = b.page_offsets]

\* DocModel.close (lines 42-43): "if self.doc" is len(doc) != 0 for a
\* fitz.Document, so a document without pages is left as it is
DocModel_close(m) ==
    IF m.doc /\ m.page_count # 0 THEN [m EXCEPT !.doc = FALSE] ELSE m

\* a key that leaves out the decode path
page_key_no_path(m, pno, safe) == <<pno, m.dpi, 1>>

\* DocModel._page_key (line 93)
page_key(m, pno, safe) == <<pno, m.dpi, IF safe THEN 1 ELSE 0>>

\* the steps of render_page at which the decoder can raise
Faults == {"none", "load_page", "get_pixmap", "shrink", "encode", "qimage"}

\* one fault for each outcome of a render: the image, an exception, the
\* placeholder
Outcomes == {"none", "load_page", "get_pixmap"}

\* DocModel.render_page (lines 94-120): the cache afterwards, the image
\* returned (NoImg for None), whether the call raised, and whether it got
\* past the cache (attempted).  fault names the step that raises, if the
\* call reaches it.
render_page_caches_tile(m, pno, safe, fault) ==
    IF ~m.doc \/ pno < 0 \/ pno >= m.page_count
    THEN [cache |-> m.page_pix_cache, ret |-> NoImg, raised |-> FALSE, attempted |-> FALSE]
    ELSE
    LET key == page_key(m, pno, safe)
        g   == LRUCache_get(m.page_pix_cache, key)
    IN  IF g.ret # <<>>
        THEN [cache |-> g.d, ret |-> g.ret[1], raised |-> FALSE, attempted |-> FALSE]
        ELSE IF fault = "load_page"
        THEN \* page = self.doc[pno] is outside the try block
             [cache |-> g.d, ret |-> NoImg, raised |-> TRUE, attempted |-> TRUE]
        ELSE
        LET pp     == PagePix(m.pdf_path, pno)
            \* scale = min(max(dpi/72.0, 0.5), 3.0), kept as 72 * scale
            scale72 == Clamp(m.dpi, 36, 216)
            width  == (pp.w * scale72) \div 72
            height == (pp.h * scale72) \div 72
            over   == width > 6000 \/ height > 8000
            png    == safe \/ pp.n \notin {1, 3, 4}
            fmt    == IF png THEN "PNG"
                      ELSE IF pp.n = 1 THEN "Grayscale8"
                      ELSE IF pp.n = 3 THEN "RGB888"
                      ELSE "RGBA8888"
            bad    == \/ fault = "get_pixmap"
                      \/ over /\ fault = "shrink"
                      \/ png /\ fault = "encode"
                      \/ ~png /\ fault = "qimage"
            img    == PageImg(m.id, pno, m.dpi, safe, over, fmt)
        IN  IF bad
            THEN [cache |-> LRUCache_put(g.d, MaxItems, key, Tile(m.id, pno)),
                  ret |-> Tile(m.id, pno), raised |-> FALSE, attempted |-> TRUE]
            ELSE [cache |-> LRUCache_put(g.d, MaxItems, key, img), ret |-> img,
                  raised |-> FALSE, attempted |-> TRUE]

render_page_no_doc_check(m, pno, safe, fault) ==
    IF pno < 0 \/ pno >= m.page_count
    THEN [cache |-> m.page_pix_cache, ret |-> NoImg, raised |-> FALSE, attempted |-> FALSE]
    ELSE
    LET key == page_key(m, pno, safe)
        g   == LRUCache_get(m.page_pix_cache, key)
    IN  IF g.ret # <<>>
        THEN [cache |-> g.d, ret |-> g.ret[1], raised |-> FALSE, attempted |-> FALSE]
        ELSE IF fault = "load_page"
        THEN \* page = self.doc[pno] is outside the try block
             [cache |-> g.d, ret |-> NoImg, raised |-> TRUE, attempted |-> TRUE]
        ELSE
        LET pp     == PagePix(m.pdf_path, pno)
            \* scale = min(max(dpi/72.0, 0.5), 3.0), kept as 72 * scale
            scale72 == Clamp(m.dpi, 36, 216)
            width  == (pp.w * scale72) \div 72
            height == (pp.h * scale72) \div 72
            over   == width > 6000 \/ height > 8000
            png    == safe \/ pp.n \notin {1, 3, 4}
            fmt    == IF png THEN "PNG"
                      ELSE IF pp.n = 1 THEN "Grayscale8"
                      ELSE IF pp.n = 3 THEN "RGB888"
                      ELSE "RGBA8888"
            bad    == \/ fault = "get_pixmap"
                      \/ over /\ fault = "shrink"
                      \/ png /\ fault = "encode"
                      \/ ~png /\ fault = "qimage"
            img    == PageImg(m.id, pno, m.dpi, safe, over, fmt)
        IN  IF bad
            THEN [cache |-> g.d, ret |-> Tile(m.id, pno), raised |-> FALSE,
                  attempted |-> TRUE]
            ELSE [cache |-> LRUCache_put(g.d, MaxItems, key, img), ret |-> img,
                  raised |-> FALSE, attempted |-> TRUE]

render_page(m, pno, safe, fault) ==
    IF ~m.doc \/ pno < 0 \/ pno >= m.page_count
    THEN [cache |-> m.page_pix_cache, ret |-> NoImg, raised |-> FALSE, attempted |-> FALSE]
    ELSE
    LET key == page_key(m, pno, safe)
        g   == LRUCache_get(m.page_pix_cache, key)
    IN  IF g.ret # <<>>
        THEN [cache |-> g.d, ret |-> g.ret[1], raised |-> FALSE, attempted |-> FALSE]
        ELSE IF fault = "load_page"
        THEN \* page = self.doc[pno] is outside the try block
             [cache |-> g.d, ret |-> NoImg, raised |-> TRUE, attempted |-> TRUE]
        ELSE
        LET pp     == PagePix(m.pdf_path, pno)
            \* scale = min(max(dpi/72.0, 0.5), 3.0), kept as 72 * scale
            scale72 == Clamp(m.dpi, 36, 216)
            width  == (pp.w * scale72) \div 72
            height == (pp.h * scale72) \div 72
            over   == width > 6000 \/ height > 8000
            png    == safe \/ pp.n \notin {1, 3, 4}
            fmt    == IF png THEN "PNG"
                      ELSE IF pp.n = 1 THEN "Grayscale8"
                      ELSE IF pp.n = 3 THEN "RGB888"
                      ELSE "RGBA8888"
            bad    == \/ fault = "get_pixmap"
                      \/ over /\ fault = "shrink"
                      \/ png /\ fault = "encode"
                      \/ ~png /\ fault = "qimage"
            img    == PageImg(m.id, pno, m.dpi, safe, over, fmt)
        IN  IF bad
            THEN [cache |-> g.d, ret |-> Tile(m.id, pno), raised |-> FALSE,
                  attempted |-> TRUE]
            ELSE [cache |-> LRUCache_put(g.d, MaxItems, key, img), ret |-> img,
                  raised |-> FALSE, attempted |-> TRUE]

----------------------------------------------------------------------------
(* PdfView (src/hayashi.py:191-296) and PageItem (140-189).                *)

\* the model object a reference designates (FreeModel for None)
Deref(h, ref) == IF ref = 0 THEN FreeModel ELSE h[ref]

\* PdfView.render_single_page_raw (lines 262-267): the heap afterwards and
\* the image returned, with what render_page reported
render_single_page_raw(h, vm, safe, pno, fault) ==
    IF vm = 0
    THEN [heap |-> h, ret |-> NoImg, raised |-> FALSE, attempted |-> FALSE]
    ELSE LET r == render_page(h[vm], pno, safe, fault)
         IN  [heap |-> [h EXCEPT ![vm].page_pix_cache = r.cache],
              ret |-> IF r.raised THEN NoImg ELSE r.ret,
              raised |-> r.raised, attempted |-> r.attempted]

\* a set_model that keeps the images of the slots it replaces
set_model_keeps_slots(h, ref) ==
    [timer      |-> FALSE,
     all_active |-> IF timer THEN FALSE ELSE all_active,
     view_model |-> ref,
     page_items |-> IF ref = 0 THEN <<>>
                    ELSE [i \in 1..h[ref].page_count |->
                             IF i <= Len(page_items) THEN page_items[i] ELSE NoImg]]

\* a set_model that leaves the render-all timer running
set_model_keeps_timer(h, ref) ==
    [timer      |-> timer,
     all_active |-> all_active,
     view_model |-> ref,
     page_items |-> IF ref = 0 THEN <<>>
                    ELSE [i \in 1..h[ref].page_count |-> NoImg]]

\* PdfView.set_model (lines 219-234): the fields of the view it assigns
set_model(h, ref) ==
    [timer      |-> FALSE,
     all_active |-> IF timer THEN FALSE ELSE all_active,
     view_model |-> ref,
     page_items |-> IF ref = 0 THEN <<>>
                    ELSE [i \in 1..h[ref].page_count |-> NoImg]]

\* PdfView._render_all_step (lines 283-296): one timer tick
render_all_step_skips_failed(h, fault) ==
    IF view_model = 0 \/ all_idx >= h[view_model].page_count
    THEN [heap |-> h, timer |-> FALSE, all_active |-> FALSE, all_idx |-> all_idx,
          page_items |-> page_items, called |-> FALSE, ret |-> NoImg,
          raised |-> FALSE, attempted |-> FALSE]
    ELSE
    LET pno == all_idx
    IN  IF page_items[pno + 1].kind = "none"
        THEN LET r == render_single_page_raw(h, view_model, safe_png, pno, fault)
             IN  [heap |-> r.heap, timer |-> timer, all_active |-> all_active,
                  all_idx |-> IF r.ret.kind = "page" THEN all_idx + 1 ELSE all_idx,
                  page_items |-> IF r.ret.kind # "none"
                                 THEN [page_items EXCEPT ![pno + 1] = r.ret]
                                 ELSE page_items,
                  called |-> TRUE, ret |-> r.ret, raised |-> r.raised,
                  attempted |-> r.attempted]
        ELSE [heap |-> h, timer |-> timer, all_active |-> all_active,
              all_idx |-> all_idx + 1, page_items |-> page_items,
              called |-> FALSE, ret |-> NoImg, raised |-> FALSE, attempted |-> FALSE]

\* a step that jumps over the page after one that already has an image
render_all_step_skips_rendered(h, fault) ==
    IF view_model = 0 \/ all_idx >= h[view_model].page_count
    THEN [heap |-> h, timer |-> FALSE, all_active |-> FALSE, all_idx |-> all_idx,
          page_items |-> page_items, called |-> FALSE, ret |-> NoImg,
          raised |-> FALSE, attempted |-> FALSE]
    ELSE
    LET pno == all_idx
    IN  IF page_items[pno + 1].kind = "none"
        THEN LET r == render_single_page_raw(h, view_model, safe_png, pno, fault)
             IN  [heap |-> r.heap, timer |-> timer, all_active |-> all_active,
                  all_idx |-> all_idx + 1,
                  page_items |-> IF r.ret.kind # "none"
                                 THEN [page_items EXCEPT ![pno + 1] = r.ret]
                                 ELSE page_items,
                  called |-> TRUE, ret |-> r.ret, raised |-> r.raised,
                  attempted |-> r.attempted]
        ELSE [heap |-> h, timer |-> timer, all_active |-> all_active,
              all_idx |-> all_idx + 2, page_items |-> page_items,
              called |-> FALSE, ret |-> NoImg, raised |-> FALSE, attempted |-> FALSE]

\* a step that stops the timer when the render gives no page image
render_all_step_stops_on_failure(h, fault) ==
    IF view_model = 0 \/ all_idx >= h[view_model].page_count
    THEN [heap |-> h, timer |-> FALSE, all_active |-> FALSE, all_idx |-> all_idx,
          page_items |-> page_items, called |-> FALSE, ret |-> NoImg,
          raised |-> FALSE, attempted |-> FALSE]
    ELSE
    LET pno == all_idx
    IN  IF page_items[pno + 1].kind = "none"
        THEN LET r == render_single_page_raw(h, view_model, safe_png, pno, fault)
             IN  [heap |-> r.heap, timer |-> timer /\ r.ret.kind = "page",
                  all_active |-> all_active /\ r.ret.kind = "page",
                  all_idx |-> all_idx + 1,
                  page_items |-> IF r.ret.kind # "none"
                                 THEN [page_items EXCEPT ![pno + 1] = r.ret]
                                 ELSE page_items,
                  called |-> TRUE, ret |-> r.ret, raised |-> r.raised,
                  attempted |-> r.attempted]
        ELSE [heap |-> h, timer |-> timer, all_active |-> all_active,
              all_idx |-> all_idx + 1, page_items |-> page_items,
              called |-> FALSE, ret |-> NoImg, raised |-> FALSE, attempted |-> FALSE]

\* a step that renders again a page whose slot holds the placeholder
render_all_step_retries_tile(h, fault) ==
    IF view_model = 0 \/ all_idx >= h[view_model].page_count
    THEN [heap |-> h, timer |-> FALSE, all_active |-> FALSE, all_idx |-> all_idx,
          page_items |-> page_items, called |-> FALSE, ret |-> NoImg,
          raised |-> FALSE, attempted |-> FALSE]
    ELSE
    LET pno == all_idx
    IN  IF page_items[pno + 1].kind # "page"
        THEN LET r == render_single_page_raw(h, view_model, safe_png, pno, fault)
             IN  [heap |-> r.heap, timer |-> timer, all_active |-> all_active,
                  all_idx |-> all_idx + 1,
                  page_items |-> IF r.ret.kind # "none"
                                 THEN [page_items EXCEPT ![pno + 1] = r.ret]
                                 ELSE page_items,
                  called |-> TRUE, ret |-> r.ret, raised |-> r.raised,
                  attempted |-> r.attempted]
        ELSE [heap |-> h, timer |-> timer, all_active |-> all_active,
              all_idx |-> all_idx + 1, page_items |-> page_items,
              called |-> FALSE, ret |-> NoImg, raised |-> FALSE, attempted |-> FALSE]

render_all_step(h, fault) ==
    IF view_model = 0 \/ all_idx >= h[view_model].page_count
    THEN [heap |-> h, timer |-> FALSE, all_active |-> FALSE, all_idx |-> all_idx,
          page_items |-> page_items, called |-> FALSE, ret |-> NoImg,
          raised |-> FALSE, attempted |-> FALSE]
    ELSE
    LET pno == all_idx
    IN  IF page_items[pno + 1].kind = "none"
        THEN LET r == render_single_page_raw(h, view_model, safe_png, pno, fault)
             IN  [heap |-> r.heap, timer |-> timer, all_active |-> all_active,
                  all_idx |-> all_idx + 1,
                  page_items |-> IF r.ret.kind # "none"
                                 THEN [page_items EXCEPT ![pno + 1] = r.ret]
                                 ELSE page_items,
                  called |-> TRUE, ret |-> r.ret, raised |-> r.raised,
                  attempted |-> r.attempted]
        ELSE [heap |-> h, timer |-> timer, all_active |-> all_active,
              all_idx |-> all_idx + 1, page_items |-> page_items,
              called |-> FALSE, ret |-> NoImg, raised |-> FALSE, attempted |-> FALSE]

\* what the scroll area reports: the height of each PageItem (0 before it
\* is laid out), the top of the viewport in the container, and the height
\* of the viewport
Heights == {0, 1000}
Tops == {0, 1500}
ViewH == 600
Spacing == 12
DefaultH == 120
Margin == 300

\* the loop of _visible_range (lines 241-245): the items that intersect
\* the viewport widened by Margin, from item i (0-based) at offset y
RECURSIVE VisibleItems(_, _, _, _, _)
VisibleItems(hts, top, bot, i, y) ==
    IF i >= Len(hts) THEN {}
    ELSE LET h == IF hts[i + 1] # 0 THEN hts[i + 1] ELSE DefaultH
         IN  (IF y + h >= top - Margin /\ y <= bot + Margin THEN {i} ELSE {})
                 \cup VisibleItems(hts, top, bot, i + 1, y + h + Spacing)

SetMin(S) == CHOOSE x \in S : \A y \in S : x <= y
SetMax(S) == CHOOSE x \in S : \A y \in S : x >= y

\* PdfView._visible_range (lines 236-246): <<start, end>>
visible_range(hts, top, bot) ==
    IF hts = <<>> THEN <<0, -1>>
    ELSE LET rng == VisibleItems(hts, top, bot, 0, 0)
         IN  IF rng # {} THEN <<SetMin(rng), SetMax(rng)>> ELSE <<0, 0>>

\* the loop of render_visible_lite (lines 253-260) from page pno: st holds
\* the heap, the slots, done, and the pages the renderer was called for
RECURSIVE VisibleLoop(_, _, _, _, _)
VisibleLoop(st, pno, end, count, faults) ==
    IF pno > end THEN st
    ELSE IF st.page_items[pno + 1].kind = "none"
    THEN LET r  == render_single_page_raw(st.heap, view_model, safe_png, pno,
                                          faults[pno + 1])
             s2 == [heap       |-> r.heap,
                    page_items |-> [st.page_items EXCEPT ![pno + 1] = r.ret],
                    done       |-> st.done + 1,
                    calls      |-> Append(st.calls, pno)]
         IN  IF s2.done >= count THEN s2
             ELSE VisibleLoop(s2, pno + 1, end, count, faults)
    ELSE VisibleLoop(st, pno + 1, end, count, faults)

\* PdfView.render_visible_lite (lines 248-260), given the range that
\* _visible_range returns
render_visible_lite(h, count, rng, faults) ==
    LET st == [heap |-> h, page_items |-> page_items, done |-> 0, calls |-> <<>>]
    IN  IF view_model = 0 THEN st
        ELSE VisibleLoop(st, rng[1], rng[2], count, faults)

----------------------------------------------------------------------------
(* History: the call of render_single_page_raw that the last handler was,  *)
(* if it was one (render_raw).                                             *)

\* the last handler was not a call of render_visible_lite
NoVis ==
    [called |-> FALSE, count |-> 0, start |-> 0, end |-> -1, lacking |-> {},
     calls |-> <<>>, changed |-> {}]

NoCall ==
    [called |-> FALSE, pno |-> 0, safe |-> FALSE, valid |-> FALSE, clean |-> FALSE,
     ret |-> NoImg,
     raised |-> FALSE, attempted |-> FALSE, failed |-> FALSE, retry |-> FALSE]

\* the record of a call render_single_page_raw(pno) on the view's model
\* that returned r: valid says that the document was open and pno a page of
\* it, clean that the decoder was not going to raise, failed that the call
\* raised or produced the placeholder, retry that the call before it was
\* for the same page and decode path and failed
Call(pno, fault, r) ==
    LET m == Deref(heap, view_model)
        failed == r.raised \/ r.ret.kind = "tile"
    IN  [called |-> TRUE, pno |-> pno, safe |-> safe_png,
         valid |-> m.doc /\ pno >= 0 /\ pno < m.page_count,
         clean |-> fault = "none",
         ret |-> r.ret, raised |-> r.raised,
         attempted |-> r.attempted, failed |-> failed,
         retry |-> /\ last.called /\ last.failed
                   /\ last.pno = pno /\ last.safe = safe_png]

----------------------------------------------------------------------------
(* Spec: the window after MainWindow.__init__, and its handlers.           *)

InitMain ==
    /\ heap = [i \in 1..HeapSize |-> FreeModel]
    /\ win_model = 0
    /\ view_model = 0
    /\ safe_png = TRUE
    /\ act_struct = FALSE
    /\ dpi = 110
    /\ page_items = <<>>
    /\ timer = FALSE
    /\ all_idx = 0
    /\ all_active = FALSE
    /\ last = NoCall
    /\ vis = NoVis
    /\ run = -1

\* the identity of a newly constructed object: one no reference designates
NewId == CHOOSE i \in 1..HeapSize :
             /\ i \notin {win_model, view_model}
             /\ \A j \in 1..(i - 1) : j \in {win_model, view_model}

\* objects no reference designates are gone
Collect(h, refs) == [i \in DOMAIN h |-> IF i \in refs THEN h[i] ELSE FreeModel]

OpenFaults == {"none", "open"}

\* The common part of load_pdf, rebuild_text and reload_pdf_with_new_dpi:
\* close the session's model, construct and open a new one, present it.
\* fault = "open": fitz.open raises, so nothing after self.model.open() runs.
ReplaceModel(pdf_path, mode, dpi_arg, fault) ==
    LET closed == IF win_model = 0 THEN heap
                  ELSE [heap EXCEPT ![win_model] = DocModel_close(@)]
        id     == NewId
        fresh  == DocModel_init(id, pdf_path, dpi_arg, mode)
    IN  /\ win_model' = id
        /\ last' = NoCall
        /\ vis' = NoVis
        /\ IF fault = "open"
           THEN /\ heap' = Collect([closed EXCEPT ![id] = fresh], {id, view_model})
                /\ UNCHANGED <<view_model, page_items, timer, all_active, run>>
           ELSE LET h2 == [closed EXCEPT ![id] = DocModel_open(fresh)]
                    v  == set_model(h2, id)
                IN  /\ heap' = Collect(h2, {id})
                    /\ view_model' = v.view_model
                    /\ page_items' = v.page_items
                    /\ timer' = v.timer
                    /\ all_active' = v.all_active
                    /\ run' = -1
        /\ UNCHANGED <<safe_png, all_idx>>

\* MainWindow.load_pdf (lines 404-418)
load_pdf(pdf_path, fault) ==
    /\ ReplaceModel(pdf_path, IF act_struct THEN "structured" ELSE "simple",
                    dpi, fault)
    /\ UNCHANGED <<act_struct, dpi>>
    /\ UNCHANGED notMain

\* MainWindow.rebuild_text (lines 420-426), with the radio action that
\* triggers it (lines 384-389)
rebuild_text(mode, fault) ==
    /\ act_struct' = (mode = "structured")
    /\ IF win_model = 0
       THEN /\ last' = NoCall
            /\ vis' = NoVis
            /\ UNCHANGED <<heap, win_model, view_model, safe_png, page_items, timer,
                           all_idx, all_active, run>>
       ELSE ReplaceModel(heap[win_model].pdf_path, mode, dpi, fault)
    /\ UNCHANGED dpi
    /\ UNCHANGED notMain

\* SettingsDialog.update_dpi (lines 332-334): PdfView.set_dpi (216-217),
\* then MainWindow.reload_pdf_with_new_dpi (428-438)
update_dpi(value, fault) ==
    /\ value # dpi
    /\ dpi' = Clamp(value, 72, 220)
    /\ IF win_model = 0
       THEN /\ last' = NoCall
            /\ vis' = NoVis
            /\ UNCHANGED <<heap, win_model, view_model, safe_png, page_items, timer,
                           all_idx, all_active, run>>
       ELSE ReplaceModel(heap[win_model].pdf_path,
                         IF act_struct THEN "structured" ELSE "simple",
                         Clamp(value, 72, 220), fault)
    /\ UNCHANGED act_struct
    /\ UNCHANGED notMain

\* PdfView.set_safe_png (line 209), from the toggled check box (377-379)
set_safe_png ==
    /\ safe_png' = ~safe_png
    /\ last' = NoCall
    /\ vis' = NoVis
    /\ UNCHANGED <<heap, win_model, view_model, act_struct, dpi, page_items, timer,
                   all_idx, all_active, run>>
    /\ UNCHANGED notMain

\* a render_all_pages that starts again while a run is in progress
render_all_pages_restarts ==
    /\ IF view_model = 0
       THEN UNCHANGED <<all_idx, all_active, timer, run>>
       ELSE /\ all_idx' = 0
            /\ all_active' = TRUE
            /\ timer' = TRUE
            /\ run' = 0
    /\ last' = NoCall
    /\ vis' = NoVis
    /\ UNCHANGED <<heap, win_model, view_model, safe_png, act_struct, dpi, page_items>>
    /\ UNCHANGED notMain

\* PdfView.render_all_pages (lines 274-281)
render_all_pages ==
    /\ IF view_model = 0 \/ all_active
       THEN UNCHANGED <<all_idx, all_active, timer, run>>
       ELSE /\ all_idx' = 0
            /\ all_active' = TRUE
            /\ timer' = TRUE
            /\ run' = 0
    /\ last' = NoCall
    /\ vis' = NoVis
    /\ UNCHANGED <<heap, win_model, view_model, safe_png, act_struct, dpi, page_items>>
    /\ UNCHANGED notMain

\* the timeout of _all_timer: PdfView._render_all_step
tick(fault) ==
    /\ timer
    /\ \E s \in {render_all_step(heap, fault)} :
           /\ heap' = s.heap
           /\ timer' = s.timer
           /\ all_active' = s.all_active
           /\ all_idx' = s.all_idx
           /\ page_items' = s.page_items
           /\ last' = NoCall
           /\ vis' = NoVis
    /\ run' = IF run >= 0 THEN run + 1 ELSE run
    /\ UNCHANGED <<win_model, view_model, safe_png, act_struct, dpi>>
    /\ UNCHANGED notMain

\* PageItem._render_once (lines 164-167): the Render button of page pno
PageItem_render_once(pno, fault) ==
    /\ pno < Len(page_items)
    /\ \E r \in {render_single_page_raw(heap, view_model, safe_png, pno, fault)} :
           /\ heap' = r.heap
           /\ page_items' = [page_items EXCEPT ![pno + 1] = r.ret]
           /\ last' = NoCall
           /\ vis' = NoVis
    /\ UNCHANGED <<win_model, view_model, safe_png, act_struct, dpi, timer, all_idx,
                   all_active, run>>
    /\ UNCHANGED notMain

\* PageItem._clear (lines 159-162): the Clear button of page pno
PageItem_clear(pno) ==
    /\ pno < Len(page_items)
    /\ page_items' = [page_items EXCEPT ![pno + 1] = NoImg]
    /\ last' = NoCall
    /\ vis' = NoVis
    /\ UNCHANGED <<heap, win_model, view_model, safe_png, act_struct, dpi, timer,
                   all_idx, all_active, run>>
    /\ UNCHANGED notMain

\* a call of PdfView.render_single_page_raw(pno) with any page index
render_raw(pno, fault) ==
    /\ \E r \in {render_single_page_raw(heap, view_model, safe_png, pno, fault)} :
           /\ heap' = r.heap
           /\ last' = Call(pno, fault, r)
           /\ vis' = NoVis
    /\ UNCHANGED <<win_model, view_model, safe_png, act_struct, dpi, page_items, timer,
                   all_idx, all_active, run>>
    /\ UNCHANGED notMain

\* a call of PdfView.render_visible_lite(count) while the scroll area
\* reports the heights hts and the viewport top (the bottom of a QRect is
\* its top plus its height minus one); faults[pno + 1] is what the decoder
\* does for page pno
render_visible(count, hts, top, faults) ==
    /\ \E rng \in {visible_range(hts, top, top + ViewH - 1)} :
       \E r \in {render_visible_lite(heap, count, rng, faults)} :
           /\ heap' = r.heap
           /\ page_items' = r.page_items
           /\ vis' = [called  |-> TRUE, count |-> count,
                      start   |-> rng[1], end |-> rng[2],
                      lacking |-> {i \in 0..(Len(page_items) - 1) :
                                      page_items[i + 1].kind = "none"},
                      calls   |-> r.calls,
                      changed |-> {i \in 0..(Len(page_items) - 1) :
                                      r.page_items[i + 1] # page_items[i + 1]}]
    /\ last' = NoCall
    /\ UNCHANGED <<win_model, view_model, safe_png, act_struct, dpi, timer, all_idx,
                   all_active, run>>
    /\ UNCHANGED notMain

\* The handlers of the window, the buttons of the pages and the timer, in
\* a directory that holds the files named in files; for each of them
\* fitz.open succeeds or raises.  The menu calls render_visible_lite with
\* count = 2 (lines 371-372), over items of one height, and the decoder
\* succeeds or fails for each page on its own.
Handlers(files, opens) ==
    \/ \E p \in files, f \in opens : load_pdf(p, f)
    \/ \E mode \in {"simple", "structured"}, f \in opens : rebuild_text(mode, f)
    \/ \E v \in DpiChoices, f \in opens : update_dpi(v, f)
    \/ render_all_pages
    \/ \E f \in Outcomes : tick(f)
    \/ \E pno \in 0..(Len(page_items) - 1), f \in Outcomes : PageItem_render_once(pno, f)
    \/ \E pno \in 0..(Len(page_items) - 1) : PageItem_clear(pno)
    \/ set_safe_png
    \/ \E top \in Tops, ht \in Heights, faults \in [1..Len(page_items) -> Outcomes] :
           render_visible(2, [i \in 1..Len(page_items) |-> ht], top, faults)

\* Spec: the files of at most MaxShort pages, which may fail to open
ShortPaths == {p \in Paths : FilePages(p) <= MaxShort}

Next == Handlers(ShortPaths, OpenFaults)

\* SpecLong: the files of more than MaxShort pages, which open
LongPaths == Paths \ ShortPaths

NextLong == Handlers(LongPaths, {"none"})

\* SpecRender: documents are loaded, the decode path is switched, and
\* render_single_page_raw is called with any page index
NextRender ==
    \/ \E p \in Paths, f \in OpenFaults : load_pdf(p, f)
    \/ set_safe_png
    \/ \E pno \in -1..Deref(heap, view_model).page_count, f \in Faults : render_raw(pno, f)

\* SpecVisible: documents are loaded, slots cleared, and render_visible_lite
\* is called with any count and any position of the viewport, over items of
\* one height, with a decoder that does the same for every page
NextVisible ==
    \/ \E p \in Paths, f \in OpenFaults : load_pdf(p, f)
    \/ \E pno \in 0..(Len(page_items) - 1) : PageItem_clear(pno)
    \/ \E count \in 0..MaxCount, top \in Tops, ht \in Heights, f \in Outcomes :
           render_visible(count, [i \in 1..Len(page_items) |-> ht], top,
                          [i \in 1..Len(page_items) |-> f])

----------------------------------------------------------------------------
(* The specifications.                                                     *)

\* the cache variables while another specification runs
IdleCache ==
    /\ max = 0 /\ d = <<>> /\ used = <<>>
    /\ putlog = [pure |-> FALSE, keys |-> <<>>]
    /\ guard = [key |-> 0, n |-> 0, waslru |-> FALSE]
    /\ lastop = [op |-> "idle", k |-> 0, hit |-> FALSE, ret |-> <<>>]

\* the extraction variables while another specification runs
IdleExtract ==
    /\ pdf = <<>>
    /\ xmodel = [doc |-> FALSE, page_count |-> 0, mode |-> "idle", strip_headers |-> FALSE,
                 merged_text |-> <<>>, figures |-> <<>>, page_offsets |-> <<>>]
    /\ xparts = [parts |-> <<>>, contrib |-> <<>>]

\* the main variables while another specification runs
IdleMain ==
    /\ heap = <<>> /\ win_model = 0 /\ view_model = 0
    /\ safe_png = TRUE /\ act_struct = FALSE /\ dpi = 110
    /\ page_items = <<>> /\ timer = FALSE /\ all_idx = 0 /\ all_active = FALSE
    /\ last = NoCall /\ vis = NoVis /\ run = -1

InitSpecCache == InitCache /\ IdleExtract /\ IdleMain

SpecCache == InitSpecCache /\ [][NextCache]_vars

InitSpecExtract == InitExtract /\ IdleCache /\ IdleMain

SpecExtract == InitSpecExtract /\ [][NextExtract]_vars

Init == InitMain /\ IdleCache /\ IdleExtract

Spec == Init /\ [][Next]_vars

SpecRender == Init /\ [][NextRender]_vars

\* the timeout of _all_timer, whatever the render does
Tick == \E f \in Outcomes : tick(f)

\* SpecLive: Spec with a timer that fires while it is active (an active
\* QTimer keeps posting its timeout to the event loop)
SpecLive == Init /\ [][Next]_vars /\ WF_vars(Tick)

SpecVisible == Init /\ [][NextVisible]_vars

SpecLong == Init /\ [][NextLong]_vars

----------------------------------------------------------------------------
(* Claims about the cache.                                                 *)

\* C1: a cache of capacity N >= 1 never holds more than N entries, whatever
\* gets and puts were made.
C1_CacheBounded == Len(d) <= max

\* C1 witness: a put on a full cache of a key it did not hold has just
\* happened, and the cache is still exactly full.
C1_Witness ==
    /\ lastop.op = "put" /\ ~lastop.hit
    /\ Len(d) = max
    /\ Len(used) > max

\* C2: every key that was stored and is absent now was used (put, or hit by
\* get) less recently than every key still present, so put never evicted a
\* more recently used entry than one it kept; and after N+k distinct puts
\* on an empty cache with no get, the cache holds exactly the N latest keys
\* (the k earliest are absent), oldest first.
C2_EvictsLeastRecent ==
    /\ \A a \in Range(used) \ Keys(d) : \A p \in Keys(d) :
           IndexOf(used, a) < IndexOf(used, p)
    /\ Keys(d) \subseteq Range(used)
    /\ (putlog.pure /\ Len(putlog.keys) > max) =>
           LET n == Len(putlog.keys)
           IN  /\ [i \in 1..Len(d) |-> d[i].k] = SubSeq(putlog.keys, n - max + 1, n)
               /\ \A i \in 1..(n - max) : putlog.keys[i] \notin Keys(d)

\* C2 witness: N+2 distinct keys were put one after another on the empty
\* cache, so two evictions have happened.
C2_Witness ==
    /\ putlog.pure
    /\ Len(putlog.keys) = max + 2
    /\ lastop.op = "put"

\* C3: after a get hit on K, K is still present while at most N-1 keys that
\* were not in the cache have been put since.
C3_HitProtects == guard.key # 0 => guard.key \in Keys(d)

\* C3 witness: K was the least recently used entry of a full cache of
\* capacity >= 2 when get(K) hit, and N-1 new keys have been put since.
C3_Witness ==
    /\ guard.key # 0 /\ guard.waslru
    /\ max >= 2
    /\ guard.n = max - 1
    /\ Len(d) = max
    /\ lastop.op = "put"

----------------------------------------------------------------------------
(* Claims about extraction.                                                *)

\* the number of places where pat occurs in s
Occurrences(s, pat) ==
    Cardinality({i \in 1..(Len(s) - Len(pat) + 1) : SubSeq(s, i, i + Len(pat) - 1) = pat})

\* C4: after extraction in either mode of a document with P pages, exactly
\* P offset ranges are recorded; the first starts at 0, every range has
\* start <= end, each range starts where the previous one ends, and so a
\* range never reaches into a later one.
C4_OffsetsContiguous ==
    xmodel.doc =>
        LET o == xmodel.page_offsets
            P == Len(pdf)
        IN  /\ xmodel.page_count = P
            /\ Len(o) = P
            /\ P >= 1 => o[1][1] = 0
            /\ \A i \in 1..P : o[i][1] <= o[i][2]
            /\ \A i \in 1..(P - 1) : o[i + 1][1] = o[i][2]
            /\ \A i \in 1..P : \A j \in (i + 1)..P : o[i][2] <= o[j][1]

\* C4 witness: a two-page document was extracted in simple mode and both
\* pages contributed text or markers.
C4_Witness ==
    /\ xmodel.doc /\ xmodel.mode = "simple"
    /\ Len(xmodel.page_offsets) = 2
    /\ xmodel.page_offsets[1][1] < xmodel.page_offsets[1][2]
    /\ xmodel.page_offsets[2][1] < xmodel.page_offsets[2][2]

\* C5: for every page i, merged_text[start_i:end_i] is exactly what page i
\* appended during the build, and end_i is at most len(merged_text).
C5_SliceIsContribution ==
    xmodel.doc =>
        \A i \in 1..Len(xmodel.page_offsets) :
            LET r == xmodel.page_offsets[i]
            IN  /\ r[2] <= Len(xmodel.merged_text)
                /\ Slice(xmodel.merged_text, r[1], r[2]) = xparts.contrib[i]

\* C6: the registered figure ids are exactly 1..F, each id has exactly one
\* marker in merged_text, that marker carries the registered page index
\* plus one, and a figure with a larger id is never on an earlier page.
C6_FigureIds ==
    xmodel.doc =>
        LET figs == xmodel.figures
            F    == Len(figs)
        IN  /\ \A i \in 1..F : figs[i].id = i
            /\ \A i \in 1..F :
                   /\ figs[i].page \in 0..(xmodel.page_count - 1)
                   /\ Occurrences(xmodel.merged_text, MarkHead \o Str(i) \o <<" ">>) = 1
                   /\ Occurrences(xmodel.merged_text,
                                  MarkHead \o Str(i) \o <<" ", "(", "p">>
                                      \o Str(figs[i].page + 1) \o <<")", "]">>) = 1
            /\ \A i \in 1..F : \A j \in (i + 1)..F : figs[i].page <= figs[j].page
            /\ Occurrences(xmodel.merged_text, MarkHead) = F

\* C6 witness: at least three figures were registered, on two pages.
C6_Witness ==
    /\ xmodel.doc
    /\ Len(xmodel.figures) >= 3
    /\ xmodel.figures[1].page # xmodel.figures[Len(xmodel.figures)].page

----------------------------------------------------------------------------
(* Claims about rendering (SpecRender) and the scheduler (Spec).           *)

\* C7: a render of a page of the open document never raises and never
\* returns None: it returns the page image or, when the decoder fails at
\* any step, the placeholder.
C7_RenderNeverRaises ==
    (last.called /\ last.valid) =>
        /\ ~last.raised
        /\ last.ret.kind \in {"page", "tile"}

\* C8: a render that fails leaves every cache as it was, no cache ever
\* holds a placeholder, and the next render of the same page and decode
\* path goes to the decoder again and returns the page image if the decoder
\* does not fail this time.
C8_PlaceholderNotCached ==
    [][ /\ (last'.called /\ last'.failed) => heap' = heap
        /\ \A i \in DOMAIN heap' : \A j \in DOMAIN heap'[i].page_pix_cache :
               heap'[i].page_pix_cache[j].v.kind = "page"
        /\ (last'.called /\ last'.retry /\ last'.valid) =>
               /\ last'.attempted
               /\ last'.clean =>
                      /\ last'.ret.kind = "page"
                      /\ last'.ret.pno = last'.pno
                      /\ last'.ret.gen = view_model
      ]_vars

\* C8 witness: a render failed, and the next call for the same page and
\* decode path went to the decoder and returned the page image.
C8_Witness ==
    /\ last.called /\ last.retry /\ last.valid
    /\ last.attempted /\ last.clean
    /\ last.ret.kind = "page"

\* C9: a render with no model, with a closed document or with a page index
\* outside [0, page_count) returns None without raising and leaves every
\* cache, contents and order, as it was.
C9_InvalidRenderIsAbsent ==
    [][ (last'.called /\ ~last'.valid) =>
            /\ last'.ret = NoImg
            /\ ~last'.raised
            /\ heap' = heap
      ]_vars

\* C9 witness: the document of the view's model is closed, the image of
\* the page asked for is still in its cache, and the call returned None.
C9_Witness ==
    /\ last.called /\ ~last.valid
    /\ view_model # 0
    /\ ~heap[view_model].doc
    /\ last.pno >= 0 /\ last.pno < heap[view_model].page_count
    /\ page_key(heap[view_model], last.pno, last.safe) \in Keys(heap[view_model].page_pix_cache)
    /\ last.ret = NoImg

\* C10 as claimed: after the P-th tick of a run on a document with P >= 1
\* pages the scheduler is idle and the timer stopped.
C10_DrainsInPTicks ==
    (run >= 0 /\ view_model # 0 /\ heap[view_model].page_count >= 1
              /\ run = heap[view_model].page_count) =>
        (~all_active /\ ~timer)

\* C10 amended: a run takes P+1 ticks.  After k <= P ticks the scheduler is
\* still running with the cursor at k; the tick after the P-th finds the
\* cursor at P, stops the timer and makes the scheduler idle.
C10_DrainsInPPlusOneTicks ==
    (run >= 0 /\ view_model # 0) =>
        LET P == heap[view_model].page_count
        IN  /\ run <= P + 1
            /\ run <= P => (all_active /\ timer /\ all_idx = run)
            /\ run = P + 1 => (~all_active /\ ~timer /\ all_idx = P)

\* C10 witness: a run on a one-page document has ended with its second tick.
C10_Witness ==
    /\ view_model # 0
    /\ heap[view_model].page_count = 1
    /\ run = 2
    /\ ~all_active /\ ~timer

----------------------------------------------------------------------------
(* Claims about the render-all scheduler and the replacement of the        *)
(* document (Spec; SpecLong for the order of the pages).                   *)

\* the page count of the model the view presents
ViewPages == Deref(heap, view_model).page_count

\* the keys of the cache of the model the view presents
ViewKeys(h) == Keys(Deref(h, view_model).page_pix_cache)

\* C11: in a run that is not stopped, the k-th tick visits page k-1 and
\* advances the cursor by exactly one, whether the page had an image,
\* rendered or failed; the tick renders no page but the one at the cursor,
\* and that one at most once.
C11_CursorVisitsEachPageOnce ==
    [][ (run >= 0 /\ run' = run + 1 /\ view_model # 0 /\ all_idx < ViewPages) =>
            /\ all_idx = run
            /\ all_idx' = all_idx + 1
            /\ view_model' = view_model
            /\ \A i \in DOMAIN page_items :
                   i # all_idx + 1 => page_items'[i] = page_items[i]
            /\ \A k \in ViewKeys(heap') \ ViewKeys(heap) : k[1] = all_idx
            /\ Cardinality(ViewKeys(heap') \ ViewKeys(heap)) <= 1
      ]_vars

\* C11 witness: two ticks of a run on a two-page document went over a page
\* whose render failed and a page that rendered.
C11_Witness ==
    /\ run = 2 /\ all_idx = 2 /\ all_active
    /\ view_model # 0 /\ ViewPages = 2
    /\ page_items[1].kind = "tile"
    /\ page_items[2].kind = "page"

\* C12: every image in a slot was rendered from the document the view
\* presents, for the page of that slot, and the timer only runs for a run
\* started on the document the view presents.
C12_NoImageOfOldDocument ==
    /\ view_model # 0 =>
           \A i \in DOMAIN page_items :
               page_items[i].kind # "none" =>
                   /\ page_items[i].gen = view_model
                   /\ page_items[i].pno = i - 1
    /\ timer => (view_model # 0 /\ run >= 0)

\* C12 witness: a third model was presented after an earlier one (identity
\* 3 is only used while 1 and 2 are both referenced), a run was started on
\* it and its first page rendered.
C12_Witness ==
    /\ view_model = 3 /\ timer /\ run >= 1
    /\ page_items # <<>> /\ page_items[1].kind = "page"

\* C14: the step that presents another model leaves the scheduler idle with
\* the timer stopped, the cache of the presented model empty and a slot
\* without image for each of its pages; the presented model is the
\* session's, and open.
C14_ReplacementIsAtomic ==
    [][ view_model' # view_model =>
            /\ ~timer' /\ ~all_active'
            /\ win_model' = view_model'
            /\ heap'[view_model'].doc
            /\ heap'[view_model'].page_pix_cache = <<>>
            /\ Len(page_items') = heap'[view_model'].page_count
            /\ \A i \in DOMAIN page_items' : page_items'[i] = NoImg
      ]_vars

\* C14 witness: a model presented in place of an earlier one, one page,
\* nothing rendered, scheduler idle.
C14_Witness ==
    /\ view_model = 3 /\ win_model = 3
    /\ ~timer /\ ~all_active /\ run = -1
    /\ heap[3].page_pix_cache = <<>>
    /\ page_items = <<NoImg>>

\* C15 as claimed: the session never holds a model whose document is not
\* open, and the session's model is the one the view presents.
C15_NoPartialState ==
    /\ win_model # 0 => heap[win_model].doc
    /\ win_model = view_model

\* C16: render_all_pages while a run is in progress changes neither the
\* cursor, nor the state, nor the timer, nor a slot, nor a cache; without a
\* model it leaves the scheduler idle.
C16_StartWhileRunningIsNoOp ==
    [][ render_all_pages =>
            /\ all_active =>
                   UNCHANGED <<all_idx, all_active, timer, page_items, heap, run>>
            /\ view_model = 0 => (~all_active' /\ ~timer')
      ]_vars

\* C16 witness: a run in progress with the cursor past page 0, where a
\* restart would be visible.
C16_Witness ==
    /\ all_active /\ timer /\ all_idx = 1 /\ run = 1
    /\ view_model # 0 /\ ViewPages = 1

\* C17: while a run is in progress the cursor is within [0, page_count] of
\* the presented document, and a step that ends the run without presenting
\* another model is a tick that found the cursor at the page count.
C17_OnlyTheEndStopsTheTicks ==
    [][ /\ all_active' =>
               /\ view_model' # 0
               /\ 0 <= all_idx'
               /\ all_idx' <= Deref(heap', view_model').page_count
        /\ (all_active /\ ~all_active' /\ view_model' = view_model) =>
               /\ all_idx >= ViewPages
               /\ all_idx' = all_idx
               /\ ~timer'
        /\ (timer /\ ~timer' /\ view_model' = view_model) => all_idx >= ViewPages
      ]_vars

\* C17 witness: the run is still in progress at the end of a one-page
\* document after the render of the page failed with a placeholder.
C17_Witness ==
    /\ all_active /\ timer /\ all_idx = 1 /\ run = 1
    /\ view_model # 0 /\ ViewPages = 1
    /\ page_items[1].kind = "tile"

\* C18: with a timer that keeps firing, every run that was started ends:
\* the scheduler is idle again, whatever the renders did and whatever the
\* number of pages.
C18_RunEventuallyIdle == all_active ~> ~all_active

\* C18 witness: a run on a document without pages has ended with its first
\* tick.
C18_Witness ==
    /\ view_model # 0 /\ ViewPages = 0
    /\ run = 1 /\ ~all_active /\ ~timer

----------------------------------------------------------------------------
(* Claims about render_visible_lite (SpecVisible).                         *)

\* C13 as claimed: a call render_visible_lite(count), count >= 0, calls the
\* renderer for at most count pages, each inside the visible range and
\* without image before the call, in increasing order; when no page of the
\* range lacks an image it calls the renderer for none and changes no slot.
C13_RendersAtMostCount ==
    vis.called =>
        /\ Len(vis.calls) <= vis.count
        /\ \A i \in DOMAIN vis.calls :
               /\ vis.calls[i] >= vis.start /\ vis.calls[i] <= vis.end
               /\ vis.calls[i] \in vis.lacking
        /\ \A i, j \in DOMAIN vis.calls : i < j => vis.calls[i] < vis.calls[j]
        /\ (\A p \in vis.start..vis.end : p \notin vis.lacking) =>
               (vis.calls = <<>> /\ vis.changed = {})

----------------------------------------------------------------------------
(* Claims about the life of cache entries (SpecRender).                    *)

\* C19 as claimed: a step removes an entry from a cache only when the cache
\* was full (eviction) or by leaving the cache empty (discard), and a step
\* that changes the decode path leaves the cache of the presented model
\* empty.
C19_DecodePathChangeDiscardsCache ==
    [][ /\ \A i \in DOMAIN heap :
               \/ Keys(heap[i].page_pix_cache) \subseteq Keys(heap'[i].page_pix_cache)
               \/ Len(heap[i].page_pix_cache) >= MaxItems
               \/ heap'[i].page_pix_cache = <<>>
        /\ (safe_png' # safe_png /\ view_model' # 0) =>
               heap'[view_model'].page_pix_cache = <<>>
      ]_vars

----------------------------------------------------------------------------
(* Claims about header and footer stripping (SpecExtract).                 *)

\* a text block that lies entirely within the top or the bottom margin
InMargin(blk, page_h) ==
    blk.bbox[4] <= HeaderCut \/ blk.bbox[2] >= page_h - HeaderCut

\* C20 as claimed: after a structured build with strip_headers set, no line
\* of a text block lying within a margin of its page occurs in what that
\* page contributed to the text, and every image block with a reference,
\* in a margin or not, has its marker in the contribution.
C20_StrippedTextAbsent ==
    (xmodel.doc /\ xmodel.mode = "structured" /\ xmodel.strip_headers) =>
        \A p \in DOMAIN pdf :
            LET page == pdf[p]
                c    == xparts.contrib[p]
            IN  /\ \A b \in Range(page.blocks) :
                       (b.type = 0 /\ InMargin(b, page.height)) =>
                           \A line \in Range(b.lines) :
                               Strip(Concat(line)) # <<>> =>
                                   Occurrences(c, Concat(line)) = 0
                /\ Occurrences(c, MarkHead) =
                       Cardinality({i \in DOMAIN page.blocks :
                                       /\ page.blocks[i].type = 1
                                       /\ (page.blocks[i].xref # 0
                                              \/ page.blocks[i].image # 0)})

----------------------------------------------------------------------------
(* Claims about cache hits of the renderer (SpecRender).                   *)

\* C21: a render of a page of the open document that returns a page image
\* leaves it in the cache under (pno, dpi, decode path) as the most recent
\* entry, and the image is one of that model, page, resolution and decode
\* path; a render whose key is in the cache returns the cached image
\* without reaching the rasterizer, and moves the entry to the most recent
\* place, leaving the other entries in their order.
C21_HitReturnsCachedImage ==
    [][ (last'.called /\ last'.valid) =>
            LET m   == heap[view_model]
                key == <<last'.pno, m.dpi, IF last'.safe THEN 1 ELSE 0>>
                c   == m.page_pix_cache
                c2  == heap'[view_model].page_pix_cache
            IN  /\ key \in Keys(c) =>
                       /\ last'.ret = c[DictAt(c, key)].v
                       /\ ~last'.attempted /\ ~last'.raised
                       /\ c2 = Append(DictPop(c, key), [k |-> key, v |-> last'.ret])
                /\ last'.ret.kind = "page" =>
                       /\ c2 # <<>>
                       /\ Last(c2) = [k |-> key, v |-> last'.ret]
                       /\ last'.ret.gen = m.id
                       /\ last'.ret.pno = last'.pno
                       /\ last'.ret.dpi = m.dpi
                       /\ last'.ret.safe = last'.safe
      ]_vars

\* C21 witness: the last render was a hit on the older of two entries for
\* the same page, one for each decode path.
C21_Witness ==
    /\ last.called /\ last.valid /\ ~last.attempted
    /\ last.ret.kind = "page"
    /\ view_model # 0
    /\ LET c == heap[view_model].page_pix_cache
       IN  /\ Len(c) >= 2
           /\ Last(c).v = last.ret
           /\ \E i \in DOMAIN c :
                  /\ c[i].k[1] = last.pno
                  /\ c[i].k[3] # Last(c).k[3]

----------------------------------------------------------------------------
(* Claims about slots that hold an image (Spec).                           *)

\* the ranges _visible_range can return for the items of the view
VisibleRanges ==
    {visible_range([i \in 1..Len(page_items) |-> ht], top, top + ViewH - 1) :
        ht \in Heights, top \in Tops}

\* C22: while the slot at the cursor holds an image, page or placeholder,
\* a tick does not call the renderer and changes neither a cache nor a
\* slot, whatever the decoder would do; and render_visible_lite, with any
\* count and visible range, calls the renderer only for pages whose slot
\* holds no image and leaves the slots that hold one as they are.
C22_SlotWithImageIsNotRenderedAgain ==
    /\ \A f \in Outcomes :
           (timer /\ view_model # 0 /\ all_idx < ViewPages
                  /\ page_items[all_idx + 1].kind # "none") =>
               LET s == render_all_step(heap, f)
               IN  /\ ~s.called
                   /\ s.heap = heap
                   /\ s.page_items = page_items
                   /\ s.all_idx = all_idx + 1
    /\ \A count \in 0..MaxCount, rng \in VisibleRanges,
          faults \in [1..Len(page_items) -> Outcomes] :
           LET r == render_visible_lite(heap, count, rng, faults)
           IN  /\ \A i \in DOMAIN r.calls :
                       page_items[r.calls[i] + 1].kind = "none"
               /\ \A j \in DOMAIN page_items :
                       page_items[j].kind # "none" => r.page_items[j] = page_items[j]

\* C22 witness: a run was started with the cursor on a page whose slot
\* holds the placeholder of an earlier failure.
C22_Witness ==
    /\ timer /\ all_active /\ run = 0 /\ all_idx = 0
    /\ view_model # 0 /\ ViewPages = 1
    /\ page_items[1].kind = "tile"

====
